---- MODULE Spec2Model ----
(***************************************************************************)
(* Model of mensa.py: a single-threaded scheduler that fires a morning job *)
(* (capture the menu with retries, upload, post, save the post id) and a   *)
(* reminder job (load the post id, post in its thread, delete the record). *)
(*                                                                         *)
(* One action per statement that talks to the outside world (browser,      *)
(* chat server, record file, clock); every outcome such a call can have    *)
(* (a value, None, an exception) is a nondeterministic choice.             *)
(* browser.close() and leaving the sync_playwright() block are taken not   *)
(* to raise.                                                               *)
(***************************************************************************)
EXTENDS Integers, Sequences, FiniteSets, TLC

\* ---------------------------------------------------------------- bounds
\* Number of calendar days (in the scheduler's timezone) the jobs fire on.
MaxDays == 4
\* Largest max_retries and delay_seconds the capture is called with on its own.
MaxRetriesArg == 5
MaxDelayArg == 2
\* Largest coordinates and sizes of a bounding box, in half pixels: the
\* coordinates pass the margins.
MaxBoxX == 53
MaxBoxY == 41
MaxBoxSize == 3

\* ------------------------------------------------------ program constants
\* capture_and_send_screenshot(max_retries=5, delay_seconds=2)
DEFAULT_MAX_RETRIES == 5
DEFAULT_DELAY_SECONDS == 2
\* MORNING_TIME = "09:00", REMINDER_TIME = "11:11", as minutes of the day
MORNING_TIME == 540
REMINDER_TIME == 671
\* TIMEZONE = "Europe/Berlin": its UTC offset in hours (CET)
TIMEZONE == 1
\* MARGIN_TOP = 18, MARGIN_LEFT = 25 (pixels)
MARGIN_TOP == 18
MARGIN_LEFT == 25

\* --------------------------------------------------------------- scalars
None == "None"
FileIds == {"f1", "f2"}
PostIds == {"p1", "p2"}
\* UTC offsets (hours) of the machine's own timezone, the one datetime.today()
\* and datetime.now() use: Europe/Berlin itself, Pacific/Honolulu and
\* Pacific/Pago_Pago.
SystemOffsets == {TIMEZONE, -10, -11}

VARIABLES
    day,            \* date (index) in TIMEZONE of the current / next firing
    slot,           \* "morning" | "reminder": the job firing now / next
    sysOffset,      \* UTC offset of the machine's local timezone
    pc,             \* position of the single thread
    job,            \* the job fired last ("none" before the first)
    exitCause,      \* why the process ended ("none" while it runs)
    max_retries, delay_seconds, attempt,      \* capture_and_send_screenshot
    browser,        \* TRUE while the attempt's browser is open
    page,           \* 0: name 'page' unbound; n: page created in attempt n
    exitKind,       \* how the inner try block is being left
    file_id,        \* capture's local: what mm.upload_file returned
    retval,         \* what capture_and_send_screenshot returned (the
                    \* morning job's file_id)
    post_id,        \* value returned by load_post_id
    post,           \* value returned by the job's mm.post
    file,           \* content of POST_ID_PATH
    \* ---- observations of the current job run, reset when a job fires
    launches,       \* calls of p.chromium.launch
    uploads,        \* calls of mm.upload_file
    uploadedAt,     \* attempt whose upload returned an id (0: none did)
    chatLog,        \* calls of mm.post, in order
    fileOps,        \* accesses of POST_ID_PATH
    noService,      \* an attempt classified the page as no-service
    slept,          \* seconds slept since the last attempt ended
    fileAtFire,     \* content of POST_ID_PATH when the job fired
    openBrowsers,   \* browser instances launched and not closed
    classified,     \* what is_menu_available did in the current attempt
    onlyUnavailable,\* every attempt ended so far in this call took the
                    \* Unavailable path: dump written, continue
    dumps,          \* the dump files the running call has written HTML to
    excDump,        \* what the except handler of the current attempt wrote
    box, region,    \* the current attempt's bounding box and crop region
    \* ---- observations that span job runs
    lastMenu,       \* the latest menu post that succeeded: its id and date
    remindersSince, \* reminders posted successfully since lastMenu
    raised,         \* the exception that left the job ("none" if none did)
    \* ---- startup
    env,            \* each required setting: "unset" | "empty" | "set"
    js_file,        \* javascript.js: "missing" | "empty" | "ok"
    errorKeys,      \* the names the startup RuntimeError lists
    registered      \* the two jobs are registered with the scheduler

clockVars == <<day, slot, sysOffset>>
procVars == <<pc, job, exitCause>>
captureVars == <<max_retries, delay_seconds, attempt, browser, page, exitKind, file_id, retval>>
jobVars == <<post_id, post>>
obsVars == <<launches, uploads, uploadedAt, chatLog, fileOps, noService, slept, fileAtFire>>
diagVars == <<openBrowsers, classified, onlyUnavailable, dumps, excDump, box, region>>
histVars == <<lastMenu, remindersSince, raised>>
startVars == <<env, js_file, errorKeys, registered>>
newVars == <<diagVars, histVars, startVars>>
vars == <<clockVars, procVars, captureVars, jobVars, file, obsVars, newVars>>

\* Values of a variable that holds nothing yet
NoBox == [x |-> -1, y |-> -1, width |-> -1, height |-> -1]
NoDump == [name |-> <<>>, html |-> "none"]
NoMenu == [id |-> None, day |-> -9]

\* The settings Mattermost.__init__ requires
ConfigKeys == {"MATTERMOST_URL", "MATTERMOST_TOKEN", "MATTERMOST_CHANNEL", "MATTERMOST_TEAM"}

missing_unset_only(e) == {k \in ConfigKeys : e[k] = "unset"}

\* missing = [k for k, v in {...}.items() if not v]: os.getenv gives None for
\* an unset variable and "" for an empty one, and both are falsy.
missing(e) == {k \in ConfigKeys : e[k] \in {"unset", "empty"}}

\* The status the process ends with: sys.exit(0) after Ctrl+C in the main
\* loop, sys.exit(1) elsewhere, and 1 for an exception nobody catches.
ExitStatus == IF exitCause = "interrupt" THEN 0 ELSE 1

\* ------------------------------------------------------------ the clock
\* Calendar date of day index n; day 0 is Friday 2026-10-30.
DateOf(n) ==
    LET dom == 30 + n
    IN  IF dom <= 31 THEN [year |-> 2026, month |-> 10, day |-> dom]
        ELSE [year |-> 2026, month |-> 11, day |-> dom - 31]

\* date.weekday(): Monday = 0 .. Sunday = 6
Weekday(n) == (4 + n) % 7

Digits2(n) == <<n \div 10, n % 10>>
Digits4(n) == <<n \div 1000, (n \div 100) % 10, (n \div 10) % 10, n % 10>>

isoformat_dmy(n) ==
    LET d == DateOf(n) IN <<Digits2(d.day), Digits2(d.month), Digits4(d.year)>>

\* date.isoformat(): "YYYY-MM-DD"
isoformat(n) ==
    LET d == DateOf(n) IN <<Digits4(d.year), Digits2(d.month), Digits2(d.day)>>

\* date.strftime("%Y-%m-%d")
strftime(n) ==
    LET d == DateOf(n) IN <<Digits4(d.year), Digits2(d.month), Digits2(d.day)>>

SlotMinutes(s) == IF s = "morning" THEN MORNING_TIME ELSE REMINDER_TIME

\* datetime.today() / datetime.now(): the machine-local date at the moment
\* the job of slot s fires on day d of TIMEZONE.
LocalDay(d, s, off) == d + ((SlotMinutes(s) + (off - TIMEZONE) * 60) \div 1440)

Today == LocalDay(day, slot, sysOffset)

is_weekend(n) == Weekday(n) >= 5

\* -------------------------------------------------------- the record file
Absent == [kind |-> "absent"]
Partial == [kind |-> "partial"]
NotJson == [kind |-> "text"]
NonObject == [kind |-> "nonobject"]
Record(p, d) == [kind |-> "json", post_id |-> p, date |-> d]

load_post_id_any_date(f, today) == IF f.kind = "json" THEN f.post_id ELSE None

\* load_post_id() on a readable file
load_post_id(f, today) ==
    IF f.kind = "json"
    THEN IF f.date = strftime(today) THEN f.post_id ELSE None
    ELSE None

\* --------------------------------------------------------------- Init
Init ==
    /\ day = 0
    /\ slot = "morning"
    /\ sysOffset \in SystemOffsets
    /\ pc = "idle"
    /\ job = "none"
    /\ exitCause = "none"
    /\ max_retries = 0
    /\ delay_seconds = 0
    /\ attempt = 0
    /\ browser = FALSE
    /\ page = 0
    /\ exitKind = "none"
    /\ file_id = None
    /\ retval = None
    /\ post_id = None
    /\ post = None
    /\ file = Absent
    /\ launches = 0
    /\ uploads = 0
    /\ uploadedAt = 0
    /\ chatLog = <<>>
    /\ fileOps = {}
    /\ noService = FALSE
    /\ slept = 0
    /\ fileAtFire = Absent
    /\ openBrowsers = 0
    /\ classified = "none"
    /\ onlyUnavailable = TRUE
    /\ dumps = {}
    /\ excDump = NoDump
    /\ box = NoBox
    /\ region = NoBox
    /\ lastMenu = NoMenu
    /\ remindersSince = 0
    /\ raised = "none"
    /\ env = [k \in ConfigKeys |-> "set"]
    /\ js_file = "ok"
    /\ errorKeys = {}
    /\ registered = TRUE

\* ------------------------------------------------------------ scheduler
\* schedule.run_pending() finds the job of this slot due and calls it.
Fire ==
    /\ pc = "idle"
    /\ day < MaxDays
    /\ job' = slot
    /\ pc' = IF slot = "morning" THEN "morning_start" ELSE "reminder_start"
    /\ launches' = 0
    /\ uploads' = 0
    /\ uploadedAt' = 0
    /\ chatLog' = <<>>
    /\ fileOps' = {}
    /\ noService' = FALSE
    /\ slept' = 0
    /\ fileAtFire' = file
    /\ classified' = "none"
    /\ onlyUnavailable' = TRUE
    /\ dumps' = {}
    /\ excDump' = NoDump
    /\ box' = NoBox
    /\ region' = NoBox
    /\ UNCHANGED <<clockVars, exitCause, captureVars, jobVars, file>>
    /\ UNCHANGED <<openBrowsers, histVars, startVars>>

\* Leaving the inner try block: the finally clause runs next.
LeaveTry(kind) ==
    /\ pc' = "finally"
    /\ exitKind' = kind

\* An exception leaves the job, passes through schedule.run_pending() and
\* reaches `except Exception` of the main block: sys.exit(1).
SchedulerStopped ==
    /\ pc' = "exited"
    /\ exitCause' = "exception"

\* The exception exc leaves the job.
Escapes(exc) ==
    /\ SchedulerStopped
    /\ raised' = exc

\* A call of mm.post: what was sent and the id of the post created (None
\* when the call failed and post() returned None).
PostCall(message, file_ids, root_id, id) ==
    [message |-> message, file_ids |-> file_ids, root_id |-> root_id, id |-> id]

\* ------------------------------------------- capture_and_send_screenshot
HasNext_inclusive(a, m) == a <= m

\* range(1, max_retries + 1) has an element after `a`
HasNext(a, m) == a < m

\* for attempt in range(1, max_retries + 1)
ForLoop ==
    /\ pc = "for"
    /\ IF HasNext(attempt, max_retries)
       THEN /\ attempt' = attempt + 1
            /\ slept' = 0
            /\ classified' = "none"
            /\ excDump' = NoDump
            /\ box' = NoBox
            /\ region' = NoBox
            /\ pc' = "launch"
       ELSE /\ pc' = "all_failed"
            /\ UNCHANGED <<attempt, slept, classified, excDump, box, region>>
    /\ UNCHANGED <<clockVars, job, exitCause, max_retries, delay_seconds, browser,
                   page, exitKind, file_id, retval, jobVars, file, launches,
                   uploads, uploadedAt, chatLog, fileOps, noService, fileAtFire>>
    /\ UNCHANGED <<openBrowsers, onlyUnavailable, dumps, histVars, startVars>>

\* with sync_playwright() as p: browser = None; browser = p.chromium.launch()
\* When either call raises, browser is None and the finally clause closes
\* nothing.
Launch ==
    /\ pc = "launch"
    /\ launches' = launches + 1
    /\ \/ /\ browser' = TRUE
          /\ openBrowsers' = openBrowsers + 1
          /\ pc' = "new_page"
          /\ UNCHANGED onlyUnavailable
       \/ /\ browser' = FALSE
          /\ pc' = "except"
          /\ onlyUnavailable' = FALSE
          /\ UNCHANGED openBrowsers
    /\ UNCHANGED <<clockVars, job, exitCause, max_retries, delay_seconds, attempt,
                   page, exitKind, file_id, retval, jobVars, file,
                   uploads, uploadedAt, chatLog, fileOps, noService, slept, fileAtFire>>
    /\ UNCHANGED <<classified, dumps, excDump, box, region, histVars, startVars>>

\* A call inside the try block that either returns or raises.
OkOrRaise(next) ==
    \/ pc' = next /\ UNCHANGED exitKind
    \/ LeaveTry("raise")

stepFrame == <<clockVars, job, exitCause, max_retries, delay_seconds, attempt,
               browser, file_id, retval, jobVars, file, obsVars>>

\* page = browser.new_page(...)
NewPage ==
    /\ pc = "new_page"
    /\ \/ page' = attempt /\ pc' = "goto" /\ UNCHANGED exitKind
       \/ LeaveTry("raise") /\ UNCHANGED page
    /\ UNCHANGED stepFrame
    /\ UNCHANGED newVars

\* page.goto(MENU_URL, timeout=15000)
Goto ==
    /\ pc = "goto"
    /\ OkOrRaise("wait_for_selector")
    /\ UNCHANGED <<stepFrame, page>>
    /\ UNCHANGED newVars

\* page.wait_for_selector(VISIBLE_TAB_SELECTOR, timeout=8000)
WaitForSelector ==
    /\ pc = "wait_for_selector"
    /\ OkOrRaise("is_menu_available")
    /\ UNCHANGED <<stepFrame, page>>
    /\ UNCHANGED newVars

NoServiceExit_continue == "continue"

\* How the try block is left when is_menu_available returned "no_service"
NoServiceExit == "return"

\* How the try block is left when visible_tab.inner_text() raises
InnerTextFailure == "raise"

\* visible_tab = is_menu_available(page) and the two tests on its result
IsMenuAvailable ==
    /\ pc = "is_menu_available"
    /\ \/ \* query_selector found nothing: None
          /\ classified' = "unavailable"
          /\ pc' = "dump"
          /\ UNCHANGED <<exitKind, retval, noService>>
       \/ \* the text holds "heute keine essensausgabe": "no_service"
          /\ classified' = "no_service"
          /\ noService' = TRUE
          /\ retval' = None
          /\ LeaveTry(NoServiceExit)
       \/ \* the element itself: a menu
          /\ classified' = "menu"
          /\ pc' = "evaluate"
          /\ UNCHANGED <<exitKind, retval, noService>>
       \/ \* query_selector raised
          /\ classified' = "query_selector_raised"
          /\ LeaveTry("raise")
          /\ UNCHANGED <<retval, noService>>
       \/ \* the element was found and visible_tab.inner_text() raised: the
          \* call is not guarded, the exception leaves is_menu_available
          /\ classified' = "inner_text_raised"
          /\ LeaveTry(InnerTextFailure)
          /\ UNCHANGED <<retval, noService>>
    /\ UNCHANGED <<clockVars, job, exitCause, max_retries, delay_seconds, attempt,
                   browser, page, file_id, jobVars, file, launches, uploads,
                   uploadedAt, chatLog, fileOps, slept, fileAtFire>>
    /\ UNCHANGED <<openBrowsers, onlyUnavailable, dumps, excDump, box, region,
                   histVars, startVars>>

DumpName_fixed(a) == <<"failed_capture_dump_attempt", 1, ".html">>

\* html_path = f"failed_capture_dump_attempt{attempt}.html"
DumpName(a) == <<"failed_capture_dump_attempt", a, ".html">>

\* open(name, "w") followed by f.write(html): the file of that name, whatever
\* it held, now holds html
WriteFile(files, name, html) ==
    {d \in files : d.name # name} \cup {[name |-> name, html |-> html]}

\* if not visible_tab: write page.content() to the dump file; continue
\* When open() or page.content() raises, no HTML has been written.
DumpHtml ==
    /\ pc = "dump"
    /\ \/ /\ dumps' = WriteFile(dumps, DumpName(attempt), page)
          /\ LeaveTry("continue")
       \/ /\ UNCHANGED dumps
          /\ LeaveTry("raise")
    /\ UNCHANGED <<stepFrame, page>>
    /\ UNCHANGED <<openBrowsers, classified, onlyUnavailable, excDump, box, region,
                   histVars, startVars>>

\* page.evaluate(JS_SCRIPT); JS_SCRIPT is not empty once startup passed
Evaluate ==
    /\ pc = "evaluate"
    /\ OkOrRaise("screenshot")
    /\ UNCHANGED <<stepFrame, page>>
    /\ UNCHANGED newVars

\* page.screenshot(path=SCREENSHOT_FULL, full_page=True)
Screenshot ==
    /\ pc = "screenshot"
    /\ OkOrRaise("bounding_box")
    /\ UNCHANGED <<stepFrame, page>>
    /\ UNCHANGED newVars

\* bounding_box() gives x, y, width and height as floats; the model counts
\* them in half pixels, so that a box can lie between two pixels.
Boxes == [x : 0..MaxBoxX, y : 0..MaxBoxY, width : 0..MaxBoxSize, height : 0..MaxBoxSize]

\* The boxes the menu element has in the runs of the whole program
PageBoxes ==
    {[x |-> 20, y |-> 40, width |-> 2, height |-> 2],
     [x |-> 53, y |-> 7, width |-> 3, height |-> 1]}

\* int(v): the whole pixels of v, v being non-negative
int(v) == v \div 2

max(a, b) == IF a > b THEN a ELSE b

CropRegion_unclamped(b) ==
    [x |-> int(b.x) - MARGIN_LEFT,
     y |-> int(b.y) - MARGIN_TOP,
     width |-> int(b.width) + MARGIN_LEFT * 2,
     height |-> int(b.height) + MARGIN_TOP * 2]

\* x = max(int(box["x"]) - MARGIN_LEFT, 0); y = max(int(box["y"]) - MARGIN_TOP, 0)
\* width = int(box["width"]) + MARGIN_LEFT * 2
\* height = int(box["height"]) + MARGIN_TOP * 2     (in pixels)
CropRegion(b) ==
    [x |-> max(int(b.x) - MARGIN_LEFT, 0),
     y |-> max(int(b.y) - MARGIN_TOP, 0),
     width |-> int(b.width) + MARGIN_LEFT * 2,
     height |-> int(b.height) + MARGIN_TOP * 2]

\* box = visible_tab.bounding_box(); if not box: continue
BoundingBox ==
    /\ pc = "bounding_box"
    /\ \/ LeaveTry("continue") /\ UNCHANGED box
       \/ \E b \in PageBoxes : box' = b /\ pc' = "crop" /\ UNCHANGED exitKind
       \/ LeaveTry("raise") /\ UNCHANGED box
    /\ UNCHANGED <<stepFrame, page>>
    /\ UNCHANGED <<openBrowsers, classified, onlyUnavailable, dumps, excDump, region,
                   histVars, startVars>>

\* The region is computed; then Image.open(SCREENSHOT_FULL),
\* image.crop((x, y, x + width, y + height)) and cropped.save(...)
Crop ==
    /\ pc = "crop"
    /\ region' = CropRegion(box)
    /\ OkOrRaise("upload")
    /\ UNCHANGED <<stepFrame, page>>
    /\ UNCHANGED <<openBrowsers, classified, onlyUnavailable, dumps, excDump, box,
                   histVars, startVars>>

\* if file_id: return file_id / else: fall out of the try block
UploadExit(id) == IF id # None THEN "return" ELSE "fall"

ReturnValue_first(id) == "f1"

\* return file_id
ReturnValue(id) == id

\* file_id = mm.upload_file(SCREENSHOT_CROPPED): an id, or None on failure
UploadFile ==
    /\ pc = "upload"
    /\ uploads' = uploads + 1
    /\ \E id \in FileIds \cup {None} :
        /\ file_id' = id
        /\ uploadedAt' = IF id # None THEN attempt ELSE uploadedAt
        /\ retval' = IF UploadExit(id) = "return" THEN ReturnValue(id) ELSE retval
        /\ LeaveTry(UploadExit(id))
    /\ UNCHANGED <<clockVars, job, exitCause, max_retries, delay_seconds, attempt,
                   browser, page, jobVars, file, launches, chatLog, fileOps,
                   noService, slept, fileAtFire>>
    /\ UNCHANGED newVars

\* Where control goes once the finally clause has run
AfterFinally(kind) ==
    CASE kind = "return" -> "captured"
      [] kind = "continue" -> "for"
      [] kind = "raise" -> "except"
      [] kind = "fall" -> "sleep"

ClosesBrowser_unless_continue(b, kind) == b /\ kind # "continue"

\* if browser: browser.close() -- in a finally clause, so however the try
\* block was left
ClosesBrowser(b, kind) == b

\* finally: if browser: browser.close()
Finally ==
    /\ pc = "finally"
    /\ browser' = FALSE
    /\ openBrowsers' = IF ClosesBrowser(browser, exitKind)
                       THEN openBrowsers - 1 ELSE openBrowsers
    /\ pc' = AfterFinally(exitKind)
    /\ exitKind' = "none"
    /\ UNCHANGED <<clockVars, job, exitCause, max_retries, delay_seconds, attempt,
                   page, file_id, retval, jobVars, file, obsVars>>
    /\ onlyUnavailable' =
          (onlyUnavailable /\ (exitKind = "return" \/
                                (exitKind = "continue" /\ classified = "unavailable")))
    /\ box' = NoBox
    /\ region' = NoBox
    /\ UNCHANGED <<classified, dumps, excDump, histVars, startVars>>

\* html_path = f"failed_capture_exception_attempt{attempt}.html"
ExceptionDumpName(a) == <<"failed_capture_exception_attempt", a, ".html">>

\* page.content() answers only while the browser the page belongs to is open.
\* `page` is a local of the function: it names the page of the latest attempt
\* that got as far as new_page, and `browser` is that attempt's browser only
\* when the page is of the current attempt.
PageUsable == page = attempt /\ browser /\ openBrowsers > 0

\* except Exception: log; if 'page' in locals(): open the exception dump file
\* and write page.content(). The handler runs after the finally clause of the
\* inner try. An error of open() or of page.content() is caught and logged;
\* when page.content() raises the file is already open, and stays empty.
ExceptHandler ==
    /\ pc = "except"
    /\ pc' = "sleep"
    /\ IF page # 0
       THEN \/ excDump' = [name |-> ExceptionDumpName(attempt),
                           html |-> IF PageUsable THEN page ELSE 0]
            \/ excDump' = NoDump
       ELSE excDump' = NoDump
    /\ UNCHANGED <<clockVars, job, exitCause, captureVars, jobVars, file, obsVars>>
    /\ UNCHANGED <<openBrowsers, classified, onlyUnavailable, dumps, box, region,
                   histVars, startVars>>

\* time.sleep(delay_seconds), the last statement of the loop body
Sleep ==
    /\ pc = "sleep"
    /\ slept' = slept + delay_seconds
    /\ pc' = "for"
    /\ UNCHANGED <<clockVars, job, exitCause, captureVars, jobVars, file, launches,
                   uploads, uploadedAt, chatLog, fileOps, noService, fileAtFire>>
    /\ UNCHANGED newVars

\* After the loop: mm.post(apology); return None
AllAttemptsFailed ==
    /\ pc = "all_failed"
    /\ \E id \in PostIds \cup {None} :
        chatLog' = Append(chatLog, PostCall("apology", <<>>, None, id))
    /\ retval' = None
    /\ pc' = "captured"
    /\ UNCHANGED <<clockVars, job, exitCause, max_retries, delay_seconds, attempt,
                   browser, page, exitKind, file_id, jobVars, file, launches,
                   uploads, uploadedAt, fileOps, noService, slept, fileAtFire>>
    /\ UNCHANGED newVars

\* --------------------------------------------------- post_morning_message
\* if is_weekend(): return; file_id = capture_and_send_screenshot()
MorningStart ==
    /\ pc = "morning_start"
    /\ IF is_weekend(Today)
       THEN /\ pc' = "job_done"
            /\ UNCHANGED <<max_retries, delay_seconds, attempt>>
       ELSE /\ pc' = "for"
            /\ max_retries' = DEFAULT_MAX_RETRIES
            /\ delay_seconds' = DEFAULT_DELAY_SECONDS
            /\ attempt' = 0
    /\ UNCHANGED <<clockVars, job, exitCause, browser, page, exitKind, file_id,
                   retval, jobVars, file, obsVars>>
    /\ UNCHANGED newVars

MorningProceeds_always(id) == TRUE

\* if not file_id: return
MorningProceeds(id) == id # None

\* file_id = capture_and_send_screenshot(); if not file_id: return
MorningAfterCapture ==
    /\ pc = "captured"
    /\ pc' = IF MorningProceeds(retval) THEN "morning_post" ELSE "job_done"
    /\ classified' = "none"
    /\ onlyUnavailable' = TRUE
    /\ dumps' = {}
    /\ excDump' = NoDump
    /\ UNCHANGED <<clockVars, job, exitCause, captureVars, jobVars, file, obsVars>>
    /\ UNCHANGED <<openBrowsers, box, region, histVars, startVars>>

SavesAfterPost_always(id) == TRUE

\* if post: save_post_id(post["id"])
SavesAfterPost(id) == id # None

\* post = mm.post(greeting, file_ids=[file_id]); if post: save_post_id(...)
MorningPost ==
    /\ pc = "morning_post"
    /\ \E id \in PostIds \cup {None} :
        /\ post' = id
        /\ chatLog' = Append(chatLog, PostCall("menu", <<retval>>, None, id))
        /\ pc' = IF SavesAfterPost(id) THEN "save_open" ELSE "job_done"
        /\ lastMenu' = IF id # None THEN [id |-> id, day |-> Today] ELSE lastMenu
        /\ remindersSince' = IF id # None THEN 0 ELSE remindersSince
    /\ UNCHANGED <<clockVars, job, exitCause, captureVars, post_id, file, launches,
                   uploads, uploadedAt, fileOps, noService, slept, fileAtFire>>
    /\ UNCHANGED <<diagVars, raised, startVars>>

\* save_post_id: with open(POST_ID_PATH, "w") as f  -- truncates the file
SaveOpen ==
    /\ pc = "save_open"
    /\ fileOps' = fileOps \cup {"write"}
    /\ \/ file' = Partial /\ pc' = "save_dump" /\ UNCHANGED <<exitCause, raised>>
       \/ Escapes("OSError") /\ UNCHANGED file
    /\ UNCHANGED <<clockVars, job, captureVars, jobVars, launches, uploads,
                   uploadedAt, chatLog, noService, slept, fileAtFire>>
    /\ UNCHANGED <<diagVars, lastMenu, remindersSince, startVars>>

\* save_post_id: json.dump({"post_id": ..., "date": now().date().isoformat()}, f)
SaveDump ==
    /\ pc = "save_dump"
    /\ \/ /\ file' = Record(post, isoformat(Today))
          /\ pc' = "job_done"
          /\ UNCHANGED <<exitCause, raised>>
       \/ Escapes("OSError") /\ UNCHANGED file
    /\ UNCHANGED <<clockVars, job, captureVars, jobVars, obsVars>>
    /\ UNCHANGED <<diagVars, lastMenu, remindersSince, startVars>>

\* -------------------------------------------------- post_reminder_message
\* if is_weekend(): return
ReminderStart ==
    /\ pc = "reminder_start"
    /\ pc' = IF is_weekend(Today) THEN "job_done" ELSE "load"
    /\ UNCHANGED <<clockVars, job, exitCause, captureVars, jobVars, file, obsVars>>
    /\ UNCHANGED newVars

\* post_id = load_post_id(); if post_id: ...
\* FileNotFoundError and JSONDecodeError give None. data.get on a JSON value
\* that is not an object raises AttributeError, which the except clause does
\* not list; neither does it list an OSError other than FileNotFoundError.
LoadPostId ==
    /\ pc = "load"
    /\ fileOps' = fileOps \cup {"read"}
    /\ \/ /\ file # NonObject
          /\ post_id' = load_post_id(file, Today)
          /\ pc' = IF post_id' # None THEN "reminder_post" ELSE "job_done"
          /\ UNCHANGED <<exitCause, raised>>
       \/ /\ file = NonObject
          /\ Escapes("AttributeError")
          /\ UNCHANGED post_id
       \/ /\ file # Absent
          /\ Escapes("OSError")
          /\ UNCHANGED post_id
    /\ UNCHANGED <<clockVars, job, captureVars, post, file, launches, uploads,
                   uploadedAt, chatLog, noService, slept, fileAtFire>>
    /\ UNCHANGED <<diagVars, lastMenu, remindersSince, startVars>>

ReminderRoot_none(p) == None

\* root_id=post_id
ReminderRoot(p) == p

DeletesRecord_never(id) == FALSE

\* if post: delete_post_id()
DeletesRecord(id) == id # None

\* post = mm.post(reminder, root_id=post_id); if post: delete_post_id()
ReminderPost ==
    /\ pc = "reminder_post"
    /\ \E id \in PostIds \cup {None} :
        /\ post' = id
        /\ chatLog' = Append(chatLog, PostCall("reminder", <<>>, ReminderRoot(post_id), id))
        /\ pc' = IF DeletesRecord(id) THEN "delete" ELSE "job_done"
        /\ remindersSince' = IF id # None THEN remindersSince + 1 ELSE remindersSince
    /\ UNCHANGED <<clockVars, job, exitCause, captureVars, post_id, file, launches,
                   uploads, uploadedAt, fileOps, noService, slept, fileAtFire>>
    /\ UNCHANGED <<diagVars, lastMenu, raised, startVars>>

\* delete_post_id: if os.path.exists(POST_ID_PATH): os.remove(POST_ID_PATH)
DeletePostId ==
    /\ pc = "delete"
    /\ fileOps' = fileOps \cup {"delete"}
    /\ \/ /\ file' = Absent
          /\ pc' = "job_done"
          /\ UNCHANGED <<exitCause, raised>>
       \/ /\ file # Absent
          /\ Escapes("OSError")
          /\ UNCHANGED file
    /\ UNCHANGED <<clockVars, job, captureVars, jobVars, launches, uploads,
                   uploadedAt, chatLog, noService, slept, fileAtFire>>
    /\ UNCHANGED <<diagVars, lastMenu, remindersSince, startVars>>

\* ------------------------------------------------------------ main loop
\* The job function returns to run_pending; the loop sleeps until the next
\* job is due. The job's local variables go out of scope.
ReturnToLoop ==
    /\ pc = "job_done"
    /\ pc' = "idle"
    /\ slot' = IF slot = "morning" THEN "reminder" ELSE "morning"
    /\ day' = IF slot = "morning" THEN day ELSE day + 1
    /\ max_retries' = 0
    /\ delay_seconds' = 0
    /\ attempt' = 0
    /\ page' = 0
    /\ file_id' = None
    /\ retval' = None
    /\ post_id' = None
    /\ post' = None
    /\ UNCHANGED <<sysOffset, job, exitCause, browser, exitKind, file, obsVars>>
    /\ UNCHANGED newVars

\* Ctrl+C: KeyboardInterrupt reaches `except KeyboardInterrupt`: sys.exit(0).
Interrupt ==
    /\ pc \notin {"exited", "startup", "load_js", "register"}
    /\ pc' = "exited"
    /\ exitCause' = "interrupt"
    /\ UNCHANGED <<clockVars, job, captureVars, jobVars, file, obsVars>>
    /\ UNCHANGED newVars

Next ==
    \/ Fire \/ ReturnToLoop \/ Interrupt
    \/ MorningStart \/ MorningAfterCapture \/ MorningPost \/ SaveOpen \/ SaveDump
    \/ ReminderStart \/ LoadPostId \/ ReminderPost \/ DeletePostId
    \/ ForLoop \/ Launch \/ NewPage \/ Goto \/ WaitForSelector \/ IsMenuAvailable
    \/ DumpHtml \/ Evaluate \/ Screenshot \/ BoundingBox \/ Crop \/ UploadFile
    \/ Finally \/ ExceptHandler \/ Sleep \/ AllAttemptsFailed

Spec == Init /\ [][Next]_vars

\* --------------------------------------- the jobs fired in any order
\* The clock k firing times later: 09:00 and 11:11 of each day in turn.
ClockAfter(k) ==
    CASE k = 0 -> [day |-> day, slot |-> slot]
      [] k = 1 -> [day |-> IF slot = "morning" THEN day ELSE day + 1,
                   slot |-> IF slot = "morning" THEN "reminder" ELSE "morning"]
      [] k = 2 -> [day |-> day + 1, slot |-> slot]

\* run_pending() calls a job: either of the two, at the same firing time as
\* the job before it or at a later one (a job can run late, run again, or
\* not at all).
FireAny ==
    /\ pc = "idle"
    /\ day < MaxDays
    /\ \E j \in {"morning", "reminder"}, k \in 0..2 :
        /\ day' = ClockAfter(k).day
        /\ slot' = ClockAfter(k).slot
        /\ job' = j
        /\ pc' = IF j = "morning" THEN "morning_start" ELSE "reminder_start"
    /\ launches' = 0
    /\ uploads' = 0
    /\ uploadedAt' = 0
    /\ chatLog' = <<>>
    /\ fileOps' = {}
    /\ noService' = FALSE
    /\ slept' = 0
    /\ fileAtFire' = file
    /\ classified' = "none"
    /\ onlyUnavailable' = TRUE
    /\ dumps' = {}
    /\ excDump' = NoDump
    /\ box' = NoBox
    /\ region' = NoBox
    /\ UNCHANGED <<sysOffset, exitCause, captureVars, jobVars, file>>
    /\ UNCHANGED <<openBrowsers, histVars, startVars>>

\* The job function returns to run_pending; its locals go out of scope.
ReturnToLoopAny ==
    /\ pc = "job_done"
    /\ pc' = "idle"
    /\ max_retries' = 0
    /\ delay_seconds' = 0
    /\ attempt' = 0
    /\ page' = 0
    /\ file_id' = None
    /\ retval' = None
    /\ post_id' = None
    /\ post' = None
    /\ UNCHANGED <<clockVars, job, exitCause, browser, exitKind, file, obsVars>>
    /\ UNCHANGED newVars

NextAnyOrder ==
    \/ FireAny \/ ReturnToLoopAny \/ Interrupt
    \/ MorningStart \/ MorningAfterCapture \/ MorningPost \/ SaveOpen \/ SaveDump
    \/ ReminderStart \/ LoadPostId \/ ReminderPost \/ DeletePostId
    \/ ForLoop \/ Launch \/ NewPage \/ Goto \/ WaitForSelector \/ IsMenuAvailable
    \/ DumpHtml \/ Evaluate \/ Screenshot \/ BoundingBox \/ Crop \/ UploadFile
    \/ Finally \/ ExceptHandler \/ Sleep \/ AllAttemptsFailed

SpecAnyOrder == Init /\ [][NextAnyOrder]_vars

\* ------------------------------------------------- the process from its start
\* mm = Mattermost(): a missing setting raises RuntimeError naming the missing
\* keys; a failing login raises too. Neither is caught.
MattermostInit ==
    /\ pc = "startup"
    /\ IF missing(env) # {}
       THEN /\ errorKeys' = missing(env)
            /\ pc' = "exited"
            /\ exitCause' = "config"
            /\ raised' = "RuntimeError"
       ELSE /\ UNCHANGED errorKeys
            /\ \/ pc' = "load_js" /\ UNCHANGED <<exitCause, raised>>
               \/ pc' = "exited" /\ exitCause' = "login" /\ raised' = "Exception"
    /\ UNCHANGED <<clockVars, job, captureVars, jobVars, file, obsVars>>
    /\ UNCHANGED <<diagVars, lastMenu, remindersSince, env, js_file, registered>>

\* JS_SCRIPT = load_js_script("javascript.js"); if not JS_SCRIPT: sys.exit(1)
LoadJsScript ==
    /\ pc = "load_js"
    /\ IF js_file = "ok"
       THEN pc' = "register" /\ UNCHANGED exitCause
       ELSE pc' = "exited" /\ exitCause' = "script"
    /\ UNCHANGED <<clockVars, job, captureVars, jobVars, file, obsVars>>
    /\ UNCHANGED newVars

\* schedule.every().day.at(...).do(...) for both jobs; the main loop starts.
RegisterJobs ==
    /\ pc = "register"
    /\ registered' = TRUE
    /\ pc' = "idle"
    /\ UNCHANGED <<clockVars, job, exitCause, captureVars, jobVars, file, obsVars>>
    /\ UNCHANGED <<diagVars, histVars, env, js_file, errorKeys>>

\* The process is started with any combination of settings and any state of
\* javascript.js.
InitProcess ==
    /\ day = 0
    /\ slot = "morning"
    /\ sysOffset \in SystemOffsets
    /\ pc = "startup"
    /\ job = "none"
    /\ exitCause = "none"
    /\ max_retries = 0
    /\ delay_seconds = 0
    /\ attempt = 0
    /\ browser = FALSE
    /\ page = 0
    /\ exitKind = "none"
    /\ file_id = None
    /\ retval = None
    /\ post_id = None
    /\ post = None
    /\ file = Absent
    /\ launches = 0
    /\ uploads = 0
    /\ uploadedAt = 0
    /\ chatLog = <<>>
    /\ fileOps = {}
    /\ noService = FALSE
    /\ slept = 0
    /\ fileAtFire = Absent
    /\ openBrowsers = 0
    /\ classified = "none"
    /\ onlyUnavailable = TRUE
    /\ dumps = {}
    /\ excDump = NoDump
    /\ box = NoBox
    /\ region = NoBox
    /\ lastMenu = NoMenu
    /\ remindersSince = 0
    /\ raised = "none"
    /\ env \in [ConfigKeys -> {"unset", "empty", "set"}]
    /\ js_file \in {"missing", "empty", "ok"}
    /\ errorKeys = {}
    /\ registered = FALSE

NextProcess == MattermostInit \/ LoadJsScript \/ RegisterJobs \/ Next

SpecProcess == InitProcess /\ [][NextProcess]_vars

\* ------------------------------------- the capture called on its own
\* capture_and_send_screenshot(max_retries, delay_seconds) for every pair of
\* arguments up to the bounds, outside the morning job.
InitCapture ==
    /\ day = 0
    /\ slot = "morning"
    /\ sysOffset = TIMEZONE
    /\ pc = "for"
    /\ job = "capture"
    /\ exitCause = "none"
    /\ max_retries \in 0..MaxRetriesArg
    /\ delay_seconds \in 0..MaxDelayArg
    /\ attempt = 0
    /\ browser = FALSE
    /\ page = 0
    /\ exitKind = "none"
    /\ file_id = None
    /\ retval = None
    /\ post_id = None
    /\ post = None
    /\ file = Absent
    /\ launches = 0
    /\ uploads = 0
    /\ uploadedAt = 0
    /\ chatLog = <<>>
    /\ fileOps = {}
    /\ noService = FALSE
    /\ slept = 0
    /\ fileAtFire = Absent
    /\ openBrowsers = 0
    /\ classified = "none"
    /\ onlyUnavailable = TRUE
    /\ dumps = {}
    /\ excDump = NoDump
    /\ box = NoBox
    /\ region = NoBox
    /\ lastMenu = NoMenu
    /\ remindersSince = 0
    /\ raised = "none"
    /\ env = [k \in ConfigKeys |-> "set"]
    /\ js_file = "ok"
    /\ errorKeys = {}
    /\ registered = TRUE

NextCapture ==
    \/ ForLoop \/ Launch \/ NewPage \/ Goto \/ WaitForSelector \/ IsMenuAvailable
    \/ DumpHtml \/ Evaluate \/ Screenshot \/ BoundingBox \/ Crop \/ UploadFile
    \/ Finally \/ ExceptHandler \/ Sleep \/ AllAttemptsFailed

SpecCapture == InitCapture /\ [][NextCapture]_vars

\* ------------------------------------- the crop region of any box
\* The first attempt has the screenshot and any bounding box.
InitCrop ==
    /\ day = 0
    /\ slot = "morning"
    /\ sysOffset = TIMEZONE
    /\ pc = "crop"
    /\ job = "capture"
    /\ exitCause = "none"
    /\ max_retries = DEFAULT_MAX_RETRIES
    /\ delay_seconds = DEFAULT_DELAY_SECONDS
    /\ attempt = 1
    /\ browser = TRUE
    /\ page = 1
    /\ exitKind = "none"
    /\ file_id = None
    /\ retval = None
    /\ post_id = None
    /\ post = None
    /\ file = Absent
    /\ launches = 1
    /\ uploads = 0
    /\ uploadedAt = 0
    /\ chatLog = <<>>
    /\ fileOps = {}
    /\ noService = FALSE
    /\ slept = 0
    /\ fileAtFire = Absent
    /\ openBrowsers = 1
    /\ classified = "menu"
    /\ onlyUnavailable = TRUE
    /\ dumps = {}
    /\ excDump = NoDump
    /\ box \in Boxes
    /\ region = NoBox
    /\ lastMenu = NoMenu
    /\ remindersSince = 0
    /\ raised = "none"
    /\ env = [k \in ConfigKeys |-> "set"]
    /\ js_file = "ok"
    /\ errorKeys = {}
    /\ registered = TRUE

NextCrop == Crop

SpecCrop == InitCrop /\ [][NextCrop]_vars

\* ------------------------------------- load_post_id on any file content
\* What POST_ID_PATH can hold: nothing, an empty or cut-off text, text that is
\* not JSON, a JSON value that is not an object, or an object whose "post_id"
\* and "date" are each present or not (None and <<>> stand for a missing key).
FileContents ==
    {Absent, Partial, NotJson, NonObject} \cup
    { Record(p, d) : p \in PostIds \cup {None},
                     d \in {isoformat(n) : n \in (0 - 1)..MaxDays} \cup {<<>>} }

\* The reminder job is about to call load_post_id(), on any day, any machine
\* timezone and any content of the file.
InitLoad ==
    /\ day \in 0..MaxDays
    /\ slot = "reminder"
    /\ sysOffset \in SystemOffsets
    /\ pc = "load"
    /\ job = "reminder"
    /\ exitCause = "none"
    /\ max_retries = 0
    /\ delay_seconds = 0
    /\ attempt = 0
    /\ browser = FALSE
    /\ page = 0
    /\ exitKind = "none"
    /\ file_id = None
    /\ retval = None
    /\ post_id = None
    /\ post = None
    /\ file \in FileContents
    /\ launches = 0
    /\ uploads = 0
    /\ uploadedAt = 0
    /\ chatLog = <<>>
    /\ fileOps = {}
    /\ noService = FALSE
    /\ slept = 0
    /\ fileAtFire = file
    /\ openBrowsers = 0
    /\ classified = "none"
    /\ onlyUnavailable = TRUE
    /\ dumps = {}
    /\ excDump = NoDump
    /\ box = NoBox
    /\ region = NoBox
    /\ lastMenu = NoMenu
    /\ remindersSince = 0
    /\ raised = "none"
    /\ env = [k \in ConfigKeys |-> "set"]
    /\ js_file = "ok"
    /\ errorKeys = {}
    /\ registered = TRUE

NextLoad == LoadPostId

SpecLoad == InitLoad /\ [][NextLoad]_vars

\* ================================================================ claims
\* Positions inside one call of capture_and_send_screenshot
InCapture ==
    pc \in {"for", "launch", "new_page", "goto", "wait_for_selector",
            "is_menu_available", "dump", "evaluate", "screenshot", "bounding_box",
            "crop", "upload", "finally", "except", "sleep", "all_failed", "captured"}

\* Positions of a job that has fired and not yet returned to the loop
InMorning ==
    /\ job = "morning"
    /\ InCapture \/ pc \in {"morning_start", "morning_post", "save_open", "save_dump", "job_done"}
InReminder ==
    /\ job = "reminder"
    /\ pc \in {"reminder_start", "load", "reminder_post", "delete", "job_done"}

ApologyCalls == SelectSeq(chatLog, LAMBDA c : c.message = "apology")

\* C1: a call of capture_and_send_screenshot(max_retries, delay_seconds)
\* launches a browser at most max_retries times, whatever the attempts do.
C1_AtMostMaxRetriesAttempts ==
    /\ launches <= max_retries
    /\ attempt <= max_retries
    /\ launches <= attempt

\* C1 witness: a call with at least two attempts has used every one of them.
C1_Witness ==
    /\ pc = "captured"
    /\ max_retries >= 2
    /\ launches = max_retries

\* What holds in every state of a job in which an attempt has classified the
\* page as no-service: the capture is only being left or has been left, with
\* no result, no chat post and no access to the record file.
C2_Stopped ==
    (noService /\ pc # "exited") =>
        /\ pc \in {"finally", "captured", "job_done", "idle"}
        /\ pc = "finally" => exitKind = "return"
        /\ retval = None
        /\ chatLog = <<>>
        /\ fileOps = {}
        /\ file = fileAtFire

\* What no step does once an attempt has classified the page as no-service:
\* start an attempt, launch a browser, upload, post, touch the record file.
C2_NothingMore ==
    (noService /\ noService') =>
        /\ attempt' <= attempt
        /\ launches' = launches
        /\ uploads' = uploads
        /\ chatLog' = chatLog
        /\ fileOps' = fileOps
        /\ file' = file

\* C2: once an attempt classifies the page as no-service the operation ends
\* with no result: no later attempt, no upload, no apology, and the morning
\* job posts nothing and writes no record.
C2_NoServiceEndsOperation == [] C2_Stopped /\ [][C2_NothingMore]_vars

\* C2 witness: the morning job is done after its second attempt found the
\* no-service notice.
C2_Witness ==
    /\ InMorning
    /\ pc = "job_done"
    /\ noService
    /\ attempt = 2

\* C3: whenever an attempt has failed and another one starts, the controller
\* has slept delay_seconds since the failed attempt ended.
C3_SleepsBetweenAttempts ==
    [][(attempt >= 1 /\ attempt' = attempt + 1) => slept = delay_seconds]_vars

\* C4: the capture returns a file id only if the upload of the same attempt
\* returned that id; after no-service or exhausted retries it returns none.
C4_ReturnsOnlyUploadedId ==
    pc = "captured" =>
        /\ retval # None <=> (uploadedAt # 0)
        /\ retval # None =>
            /\ uploadedAt = attempt
            /\ retval \in FileIds
            /\ retval = file_id
        /\ (noService \/ ApologyCalls # <<>>) => retval = None

\* C4 witness: a later attempt's upload returned the second id and the
\* capture returned.
C4_Witness ==
    /\ pc = "captured"
    /\ attempt >= 2
    /\ uploads >= 2
    /\ retval = "f2"

\* The morning job's capture has used all its attempts, none succeeded and
\* none found the no-service notice.
Exhausted ==
    /\ InMorning
    /\ pc \in {"captured", "job_done"}
    /\ max_retries > 0
    /\ attempt = max_retries
    /\ uploadedAt = 0
    /\ ~noService

\* C5: when all max_retries attempts fail without a no-service notice, the
\* apology is posted exactly once, the capture returns no result, and the
\* morning job posts no menu and writes no record.
C5_ExhaustionPostsApologyOnce ==
    Exhausted =>
        /\ Len(chatLog) = 1
        /\ chatLog[1].message = "apology"
        /\ retval = None
        /\ fileOps = {}
        /\ file = fileAtFire

\* C5 witness: the morning job is done after five failed attempts, one of
\* which got as far as an upload.
C5_Witness ==
    /\ Exhausted
    /\ pc = "job_done"
    /\ uploads >= 1

\* The morning job's menu post succeeded
MenuPosted ==
    /\ chatLog # <<>>
    /\ chatLog[Len(chatLog)].message = "menu"
    /\ chatLog[Len(chatLog)].id # None

\* C6: the morning job writes the record iff the capture returned a file id
\* and the chat post that followed succeeded; the record holds that post's id
\* and today's date; otherwise the record file is left as it was. (The one
\* way a started write does not complete is open() or json.dump() raising,
\* which ends the process.)
C6_RecordIffPosted ==
    /\ InMorning =>
        /\ "write" \in fileOps =>
            /\ retval # None
            /\ MenuPosted
            /\ post = chatLog[Len(chatLog)].id
        /\ "write" \notin fileOps => file = fileAtFire
        /\ pc = "job_done" =>
            /\ "write" \in fileOps <=> (retval # None /\ MenuPosted)
            /\ "write" \in fileOps =>
                file = Record(chatLog[Len(chatLog)].id, isoformat(Today))
    /\ (job = "morning" /\ pc = "exited" /\ exitCause = "exception") =>
        /\ "write" \in fileOps
        /\ retval # None
        /\ MenuPosted
        /\ file \in {fileAtFire, Partial}

\* C6 witness: the morning job is done and has replaced an older record.
C6_Witness ==
    /\ InMorning
    /\ pc = "job_done"
    /\ "write" \in fileOps
    /\ fileAtFire # Absent
    /\ file # fileAtFire

\* C6 witness of the other case: the menu post failed over an existing record.
C6_WitnessPostFailed ==
    /\ InMorning
    /\ pc = "job_done"
    /\ retval # None
    /\ ~MenuPosted
    /\ fileAtFire # Absent

\* The reminder job fired on a weekday with a record dated today on disk
FreshRecordAtFire ==
    /\ InReminder
    /\ ~is_weekend(Today)
    /\ fileAtFire.kind = "json"
    /\ fileAtFire.date = strftime(Today)

\* C7 as stated: with a record dated today the reminder job makes one
\* threaded post under the stored post id, and when it has finished the
\* record is gone.
C7_ReminderThenRecordGone ==
    (FreshRecordAtFire /\ pc = "job_done") =>
        /\ Len(chatLog) = 1
        /\ chatLog[1].message = "reminder"
        /\ chatLog[1].root_id = fileAtFire.post_id
        /\ file = Absent

\* C7 amended: with a record dated today the reminder job makes one threaded
\* post under the stored post id; when it has finished the record is gone if
\* that post succeeded and is unchanged if the post failed.
C7_ReminderThenRecordGoneIfPosted ==
    (FreshRecordAtFire /\ pc = "job_done") =>
        /\ Len(chatLog) = 1
        /\ chatLog[1].message = "reminder"
        /\ chatLog[1].root_id = fileAtFire.post_id
        /\ chatLog[1].id # None => file = Absent
        /\ chatLog[1].id = None => file = fileAtFire

\* C7 witness: the reminder was posted under the second post id and the job
\* is done.
C7_Witness ==
    /\ FreshRecordAtFire
    /\ pc = "job_done"
    /\ fileAtFire.post_id = "p2"
    /\ chatLog # <<>>
    /\ chatLog[1].id # None

\* The reminder job fired with no record on disk or with one of another date
NoFreshRecordAtFire ==
    /\ InReminder
    /\ \/ fileAtFire = Absent
       \/ fileAtFire.kind = "json" /\ fileAtFire.date # strftime(Today)

\* C8: with the record absent or dated another day the reminder job posts
\* nothing and leaves the record file exactly as it was.
C8_StaleRecordUntouched ==
    NoFreshRecordAtFire => (chatLog = <<>> /\ file = fileAtFire)

\* C8 witness: the reminder job is done on a weekday on which a record of
\* another day was on disk.
C8_Witness ==
    /\ NoFreshRecordAtFire
    /\ pc = "job_done"
    /\ ~is_weekend(Today)
    /\ fileAtFire.kind = "json"

\* C9: a job fired on a Saturday or Sunday of TIMEZONE launches no browser,
\* sends nothing to the chat and does not touch the record file.
C9_WeekendSkip ==
    ((InMorning \/ InReminder) /\ is_weekend(day)) =>
        /\ launches = 0
        /\ uploads = 0
        /\ chatLog = <<>>
        /\ fileOps = {}

\* C10: no failure inside a scheduled job ends the process; only an external
\* interrupt does.
C10_JobFailureNeverStopsScheduler ==
    pc = "exited" => exitCause = "interrupt"

\* C11: the write of the record is atomic with respect to process
\* termination: when the process is interrupted while save_post_id runs, the
\* file is afterwards what it was before the write, or the complete new
\* record.
C11_WriteAtomicUnderInterrupt ==
    (pc = "exited" /\ exitCause = "interrupt" /\ job = "morning" /\ "write" \in fileOps) =>
        \/ file = fileAtFire
        \/ /\ file.kind = "json"
           /\ file.post_id = chatLog[Len(chatLog)].id

\* C12: for every content of the record file that is not a record of today
\* (no file, text that is not JSON, JSON that is not an object with the
\* expected fields, a record of another date), load_post_id returns None
\* without raising, as it does for a missing file. A read that the operating
\* system refuses is outside the claim.
HoldsTodaysRecord(f) ==
    /\ f.kind = "json"
    /\ f.date = strftime(Today)
    /\ f.post_id # None

C12_NoRecordWithoutRaising ==
    ("read" \in fileOps /\ ~HoldsTodaysRecord(file) /\ raised # "OSError") =>
        /\ raised = "none"
        /\ post_id = None
        /\ pc = "job_done"

\* C13: save_post_id(p) followed by load_post_id() on the same calendar date
\* returns p; load_post_id() on any other calendar date returns None. The
\* record on disk when the reminder job fires is the one save_post_id wrote
\* for the latest menu post.
LoadReturned ==
    /\ job = "reminder"
    /\ pc \in {"reminder_post", "delete", "job_done"}
    /\ "read" \in fileOps

C13_RoundTrip ==
    (LoadReturned /\ fileAtFire.kind = "json") =>
        /\ fileAtFire.post_id = lastMenu.id
        /\ post_id = IF Today = lastMenu.day THEN lastMenu.id ELSE None

C13_Witness ==
    /\ LoadReturned
    /\ fileAtFire.kind = "json"
    /\ Today = lastMenu.day
    /\ post_id = "p2"

C13_WitnessOtherDate ==
    /\ LoadReturned
    /\ fileAtFire.kind = "json"
    /\ Today # lastMenu.day
    /\ post_id = None

\* C14: when one of the four required settings is unset or empty, or
\* javascript.js is missing or empty, the process ends with a non-zero status
\* and no job is ever registered or run; for missing settings the error names
\* exactly the unset or empty keys.
NotConfigured == {k \in ConfigKeys : env[k] # "set"}

C14_StartupFailureIsFatal ==
    /\ (NotConfigured # {} \/ js_file # "ok") =>
            /\ ~registered
            /\ job = "none"
            /\ pc \in {"startup", "load_js", "exited"}
            /\ pc = "exited" => ExitStatus # 0
    /\ NotConfigured # {} =>
            /\ pc \in {"startup", "exited"}
            /\ pc = "exited" => (exitCause = "config" /\ errorKeys = NotConfigured)
    /\ errorKeys # {} => errorKeys = NotConfigured

C14_Witness ==
    /\ pc = "exited"
    /\ env["MATTERMOST_TOKEN"] = "empty"
    /\ env["MATTERMOST_TEAM"] = "unset"
    /\ errorKeys = {"MATTERMOST_TOKEN", "MATTERMOST_TEAM"}

C14_WitnessScript ==
    /\ pc = "exited"
    /\ NotConfigured = {}
    /\ js_file = "empty"
    /\ exitCause = "script"

\* C15: every attempt launches its own browser, with none left over from an
\* earlier attempt, and that browser is closed before the attempt ends however
\* it ends; so at most one browser is open at any time and none is open when
\* capture_and_send_screenshot has returned.
InsideTry ==
    pc \in {"new_page", "goto", "wait_for_selector", "is_menu_available", "dump",
            "evaluate", "screenshot", "bounding_box", "crop", "upload", "finally"}

C15_OneBrowserPerAttempt ==
    /\ openBrowsers <= 1
    /\ pc = "launch" => openBrowsers = 0
    /\ (InsideTry /\ browser) => (openBrowsers = 1 /\ launches = attempt)
    /\ pc \in {"for", "except", "sleep", "all_failed", "captured", "morning_post",
               "save_open", "save_dump", "job_done", "idle"} => openBrowsers = 0

C15_Witness ==
    /\ pc = "captured"
    /\ retval # None
    /\ launches = 3
    /\ openBrowsers = 0

\* C16: when every attempt before attempt k classified the page as
\* Unavailable and dumped its HTML, and attempt k succeeds, the result is the
\* file id uploaded in attempt k, and the call has written exactly k-1 dump
\* files, one per failed attempt, each under the name of its own attempt and
\* holding the page of that attempt.
C16_UnavailableThenSuccess ==
    (pc = "captured" /\ retval # None /\ onlyUnavailable) =>
        /\ retval = file_id
        /\ uploadedAt = attempt
        /\ Cardinality(dumps) = attempt - 1
        /\ \A i \in 1..(attempt - 1) : [name |-> DumpName(i), html |-> i] \in dumps

C16_Witness ==
    /\ pc = "captured"
    /\ retval # None
    /\ onlyUnavailable
    /\ attempt = 3
    /\ Cardinality(dumps) = 2

\* C17: when an exception ends an attempt in which a page was created and the
\* handler has written the exception dump file, the file is named by that
\* attempt and holds the HTML of that attempt's page.
C17_ExceptionDumpHoldsPage ==
    (excDump # NoDump /\ page = attempt) =>
        /\ excDump.name = ExceptionDumpName(attempt)
        /\ excDump.html = attempt

\* C18: when the element is found and reading its text fails, the attempt
\* goes the Unavailable way: the page is dumped under the attempt's name and
\* the loop continues with the next attempt.
C18_TextFailureIsUnavailable ==
    (classified = "inner_text_raised" /\ pc = "finally") =>
        /\ exitKind = "continue"
        /\ [name |-> DumpName(attempt), html |-> attempt] \in dumps

\* C19: for a bounding box of whole, non-negative pixels the crop region is
\* x = max(box.x - 25, 0), y = max(box.y - 18, 0), width = box.width + 2*25,
\* height = box.height + 2*18; x and y are never negative; the region is a
\* function of the box alone. The box is counted in half pixels and the
\* region in pixels, so each side below is doubled.
WholePixels(b) ==
    /\ b.x % 2 = 0
    /\ b.y % 2 = 0
    /\ b.width % 2 = 0
    /\ b.height % 2 = 0

C19_CropRegionFormula ==
    (region # NoBox /\ WholePixels(box)) =>
        /\ 2 * region.x = (IF box.x - 2 * 25 > 0 THEN box.x - 2 * 25 ELSE 0)
        /\ 2 * region.y = (IF box.y - 2 * 18 > 0 THEN box.y - 2 * 18 ELSE 0)
        /\ 2 * region.width = box.width + 2 * (2 * 25)
        /\ 2 * region.height = box.height + 2 * (2 * 18)
        /\ region.x >= 0
        /\ region.y >= 0

C19_Witness ==
    /\ region # NoBox
    /\ box = [x |-> 20, y |-> 40, width |-> 2, height |-> 2]
    /\ region = [x |-> 0, y |-> 2, width |-> 51, height |-> 37]

\* C20: whatever the order and the times of the job firings, a reminder is
\* posted on a date only when the morning job posted the menu successfully on
\* that date, its thread root is the id of that menu post, and at most one
\* reminder is posted successfully per menu post.
ReminderCalls == {i \in 1..Len(chatLog) : chatLog[i].message = "reminder"}

C20_OneReminderPerMenuPost ==
    /\ \A i \in ReminderCalls :
            /\ lastMenu # NoMenu
            /\ lastMenu.day = Today
            /\ chatLog[i].root_id = lastMenu.id
    /\ remindersSince <= 1

\* A second reminder firing on the day of a menu post that has its reminder
\* posts nothing.
C20_Witness ==
    /\ job = "reminder"
    /\ pc = "job_done"
    /\ "read" \in fileOps
    /\ fileAtFire = Absent
    /\ lastMenu.day = Today
    /\ remindersSince = 1
    /\ chatLog = <<>>

====
